---------------------------- MODULE Spec2Model ----------------------------
(***************************************************************************)
(* A model of ezbackup: the crypt_keys handle and the salted streaming     *)
(* encrypt/decrypt of crypt/crypt.c, the per-file step and the run of      *)
(* backup.c, and the checksum sort.  Three specifications share the        *)
(* variables: SpecCrypt drives the crypt API, SpecBackup drives backup(),  *)
(* SpecSort drives sort_checksum_file().                                   *)
(***************************************************************************)
EXTENDS Integers, Sequences, FiniteSets, TLC

(***************************************************************************)
(* Bounds of the model.                                                    *)
(***************************************************************************)
MaxLen == 2
MaxByte == 1
MaxPw == 2
MaxSalt == 1
MaxPath == 2
MaxDig == 2
MaxLog == 3
MaxRun == 2
MaxRuns == 2
MaxFaults == 1

(***************************************************************************)
(* Program constants, scaled where the original only sets a buffer size.   *)
(***************************************************************************)
ByteMod == 256
SaltLen == 8
ChunkLen == 1
BlockSize == 2
MAX_RUN_SIZE == 2
ARCHIVE_EOF == 1

VARIABLES fk, stage, made, fs, last, so, tree, cfg, archives, run, hist,
          hv, sv, ov, tv

cvars == <<fk, stage, made, fs, last>>
bvars == <<tree, cfg, archives, run, hist>>
avars == <<hv, sv, ov, tv>>
vars == <<fk, stage, made, fs, last, so, tree, cfg, archives, run, hist,
          hv, sv, ov, tv>>

(* no call of a helper, of a scrub, of the options file or of an extraction *)
NoAux == hv = [pc |-> "none"] /\ sv = [pc |-> "none"] /\ ov = [pc |-> "none"]
             /\ tv = [pc |-> "none"]

NoFile == "NoFile"
NoCipher == "NULL"
Ciphers == {"stream", "block"}
Passwords == 1..MaxPw

RECURSIVE SeqsUpTo(_, _)
SeqsUpTo(S, n) ==
    IF n = 0 THEN {<<>>}
    ELSE LET shorter == SeqsUpTo(S, n - 1)
         IN shorter \cup {Append(s, b) : s \in {t \in shorter : Len(t) = n - 1}, b \in S}

Payloads == SeqsUpTo(0..MaxByte, MaxLen)

(* salt_prefix: 'S','a','l','t','e','d','_','_' without terminator *)
salt_prefix == <<83, 97, 108, 116, 101, 100, 95, 95>>

ZeroSalt == [i \in 1..SaltLen |-> 0]
Salts == {[i \in 1..SaltLen |-> s] : s \in 0..MaxSalt}

(***************************************************************************)
(* The cipher library.  EVP_BytesToKey is a hash of password and salt: a   *)
(* distinct key for distinct (password, salt).  The ciphers are byte       *)
(* substitutions under the key; "block" pads the last block (PKCS), so     *)
(* its final step can reject, "stream" has block size 1 and no padding.    *)
(***************************************************************************)
EVP_BytesToKey(pw, salt) == 1 + pw * 16 + salt[1]

EVP_CIPHER_block_size(c) == IF c = "block" THEN BlockSize ELSE 1

DecByte_shifted(b, key) == (b + ByteMod - key + 1) % ByteMod

EncByte(b, key) == (b + key) % ByteMod
DecByte(b, key) == (b + ByteMod - key) % ByteMod

EncBytes(s, key) == [i \in 1..Len(s) |-> EncByte(s[i], key)]
DecBytes(s, key) == [i \in 1..Len(s) |-> DecByte(s[i], key)]

Min(a, b) == IF a < b THEN a ELSE b

Tail_n(s, n) == SubSeq(s, n + 1, Len(s))
Head_n(s, n) == SubSeq(s, 1, Min(n, Len(s)))

(* EVP_EncryptUpdate: encrypts the whole blocks of buf \o chunk, keeps the rest *)
EVP_EncryptUpdate(buf, chunk, key, c) ==
    LET data == buf \o chunk
        bs == EVP_CIPHER_block_size(c)
        nfull == (Len(data) \div bs) * bs
    IN [out |-> EncBytes(Head_n(data, nfull), key), buf |-> Tail_n(data, nfull)]

(* EVP_EncryptFinal_ex: the padded last block; nothing for a stream cipher *)
EVP_EncryptFinal_ex(buf, key, c) ==
    IF c = "block"
    THEN LET n == BlockSize - Len(buf)
         IN EncBytes(buf \o [i \in 1..n |-> n], key)
    ELSE <<>>

(* EVP_DecryptUpdate: as above, but a padded cipher holds the last whole block back *)
EVP_DecryptUpdate(buf, chunk, key, c) ==
    LET data == buf \o chunk
        bs == EVP_CIPHER_block_size(c)
        nfull == (Len(data) \div bs) * bs
        nout == IF c = "block" /\ nfull = Len(data) /\ nfull > 0 THEN nfull - bs ELSE nfull
    IN [out |-> DecBytes(Head_n(data, nout), key), buf |-> Tail_n(data, nout)]

PaddingOK(blk) ==
    /\ Len(blk) = BlockSize
    /\ blk[BlockSize] \in 1..BlockSize
    /\ \A i \in (BlockSize - blk[BlockSize] + 1)..BlockSize : blk[i] = blk[BlockSize]

(* EVP_DecryptFinal_ex: [ok, out]; a padded cipher checks and strips the padding *)
EVP_DecryptFinal_ex(buf, key, c) ==
    IF c = "block"
    THEN LET blk == DecBytes(buf, key)
         IN IF PaddingOK(blk)
            THEN [ok |-> TRUE, out |-> Head_n(blk, BlockSize - blk[BlockSize])]
            ELSE [ok |-> FALSE, out |-> <<>>]
    ELSE [ok |-> TRUE, out |-> <<>>]

RECURSIVE Flatten(_)
Flatten(ws) == IF ws = <<>> THEN <<>> ELSE Head(ws).bytes \o Flatten(Tail(ws))

Write(tag, bytes) == [tag |-> tag, bytes |-> bytes]

(***************************************************************************)
(* struct crypt_keys after crypt_new(): calloc'ed, all zero.               *)
(***************************************************************************)
NewKeys ==
    [live |-> TRUE, encryption |-> NoCipher, flag_encryption_set |-> 0,
     flag_keys_set |-> 0, flag_salt_extracted |-> 0, salt |-> ZeroSalt, key |-> 0]

FreedKeys == [NewKeys EXCEPT !.live = FALSE]


(***************************************************************************)
(* The handle's place in the documented state machine                      *)
(*   NEW -set_cipher-> CIPHER_SET -gen_salt/extract_salt-> CIPHER_SET+SALT *)
(*       -derive_keys-> READY.                                             *)
(* The code keeps no such field: stage is a history variable that follows  *)
(* the calls made on the handle: a call that fails leaves it, a call that  *)
(* succeeds out of the documented order makes it "other"; so does a        *)
(* crypt_gen_salt that returns 1 (it has written a salt), a salt           *)
(* extracted from a file other than the artifact and a crypt_gen_keys      *)
(* that fails on a handle that had keys.                                   *)
(***************************************************************************)
NextStage(st, op, ok) ==
    IF op \in {"crypt_new", "crypt_free"} THEN "new"
    ELSE IF ~ok THEN st
    ELSE IF op = "crypt_set_encryption" /\ ok /\ st = "new" THEN "set"
    ELSE IF op \in {"crypt_gen_salt", "crypt_set_salt"} /\ ok /\ st = "set" THEN "set_gen"
    ELSE IF op = "crypt_extract_salt" /\ ok /\ st = "set" THEN "set_ext"
    ELSE IF op = "crypt_gen_keys" /\ ok /\ st = "set_gen" THEN "enc_ready"
    ELSE IF op = "crypt_gen_keys" /\ ok /\ st = "set_ext" THEN "dec_ready"
    ELSE IF op = "crypt_encrypt_ex" /\ st = "enc_ready" THEN "enc_ready"
    ELSE IF op = "crypt_decrypt_ex" /\ st = "dec_ready" THEN "dec_ready"
    ELSE "other"

(***************************************************************************)
(* What is remembered of the last crypt_gen_keys, crypt_encrypt_ex or      *)
(* crypt_decrypt_ex: its input, the value returned, the step that failed   *)
(* ("none" when every step went through), the number of cipher operations  *)
(* made, the tags of its fwrite calls in order and the file at its output  *)
(* path when it returns.                                                   *)
(***************************************************************************)
Result(ret, step, opened, ops, writes) ==
    [ret |-> ret, step |-> step, opened |-> opened, ops |-> ops, writes |-> writes]

Call(op, arg, r, out) ==
    [op |-> op, arg |-> arg, ret |-> r.ret, step |-> r.step, ops |-> r.ops,
     tags |-> [i \in 1..Len(r.writes) |-> r.writes[i].tag], out |-> out]

NoCall ==
    [op |-> "none", arg |-> "", ret |-> 0, step |-> "none", ops |-> 0, tags |-> <<>>,
     out |-> NoFile]

(***************************************************************************)
(* made: history of the passwords.  made.fk is the password of the keys    *)
(* of a handle prepared in the documented order (0: no such keys);         *)
(* made.art tells how the artifact was made: the password and cipher of a  *)
(* crypt_encrypt_ex that went through every step on such a handle (pw = 0: *)
(* otherwise).                                                             *)
(***************************************************************************)
NoMaker == [pw |-> 0, cipher |-> NoCipher]
NoMade == [fk |-> 0, art |-> NoMaker]

Ready == {"enc_ready", "dec_ready"}

Track(m, st, pw) == [m EXCEPT !.fk = IF st \in Ready THEN pw ELSE 0]

(***************************************************************************)
(* crypt_new / crypt_free: one handle at a time.                           *)
(***************************************************************************)
crypt_new ==
    /\ UNCHANGED <<so, bvars, avars>>
    /\ ~fk.live
    /\ fk' = NewKeys
    /\ stage' = "new"
    /\ made' = [made EXCEPT !.fk = 0]
    /\ last' = NoCall
    /\ UNCHANGED fs

crypt_free ==
    /\ UNCHANGED <<so, bvars, avars>>
    /\ fk.live
    /\ fk' = FreedKeys
    /\ stage' = "new"
    /\ made' = [made EXCEPT !.fk = 0]
    /\ last' = NoCall
    /\ UNCHANGED fs

(* crypt_set_encryption: refuses a second call, checks nothing else *)
SetEncryptionRet(h) == IF h.flag_encryption_set # 0 THEN -1 ELSE 0

crypt_set_encryption(c) ==
    /\ UNCHANGED <<so, bvars, avars>>
    /\ fk.live
    /\ LET ret == SetEncryptionRet(fk)
       IN /\ fk' = IF ret = 0
                   THEN [fk EXCEPT !.encryption = c, !.flag_encryption_set = 1]
                   ELSE fk
          /\ stage' = NextStage(stage, "crypt_set_encryption", ret = 0)
          /\ made' = Track(made, NextStage(stage, "crypt_set_encryption", ret = 0), made.fk)
          /\ last' = NoCall
    /\ UNCHANGED fs

(***************************************************************************)
(* crypt_scrub (gen_csrand): 0 from RAND_bytes, 1 after the fallback to    *)
(* /dev/urandom, -1 when neither source works (the buffer stays).          *)
(***************************************************************************)
RandSources == {"RAND_bytes", "urandom", "none"}

crypt_scrub_ret(src) ==
    IF src = "RAND_bytes" THEN 0 ELSE IF src = "urandom" THEN 1 ELSE -1

crypt_gen_salt(src, s) ==
    /\ UNCHANGED <<so, bvars, avars>>
    /\ fk.live
    /\ LET ret == crypt_scrub_ret(src)
       IN /\ fk' = IF ret >= 0 THEN [fk EXCEPT !.salt = s] ELSE fk
          /\ LET st == IF ret = 1 THEN "other"
                       ELSE NextStage(stage, "crypt_gen_salt", ret = 0)
             IN stage' = st /\ made' = Track(made, st, made.fk)
          /\ last' = NoCall
    /\ UNCHANGED fs

(* crypt_set_salt: the caller's salt, all zeroes for a NULL argument *)
crypt_set_salt(s) ==
    /\ UNCHANGED <<so, bvars, avars>>
    /\ fk.live
    /\ fk' = [fk EXCEPT !.salt = s]
    /\ stage' = NextStage(stage, "crypt_set_salt", TRUE)
    /\ made' = Track(made, NextStage(stage, "crypt_set_salt", TRUE), made.fk)
    /\ last' = NoCall
    /\ UNCHANGED fs

(***************************************************************************)
(* crypt_extract_salt: the only place that compares the 8-byte prefix.     *)
(***************************************************************************)
ExtractSaltOK(content) ==
    /\ content # NoFile
    /\ Len(content) >= 8
    /\ SubSeq(content, 1, 8) = salt_prefix
    /\ Len(content) >= 8 + SaltLen

crypt_extract_salt(in) ==
    /\ UNCHANGED <<so, bvars, avars>>
    /\ fk.live
    /\ LET ok == ExtractSaltOK(fs[in])
       IN /\ fk' = IF ok
                   THEN [fk EXCEPT !.salt = SubSeq(fs[in], 9, 8 + SaltLen),
                                   !.flag_salt_extracted = 1]
                   ELSE fk
          /\ LET st == IF ok /\ in # "art" THEN "other"
                       ELSE NextStage(stage, "crypt_extract_salt", ok)
             IN stage' = st /\ made' = Track(made, st, made.fk)
          /\ last' = NoCall
    /\ UNCHANGED fs

(***************************************************************************)
(* crypt_gen_keys: tests flag_encryption_set only.  A call that fails      *)
(* after that test has replaced the key buffers and left flag_keys_set as  *)
(* it was: on a handle that had keys, the key is then any value.           *)
(***************************************************************************)
GenKeysFaults == {"none", "malloc", "EVP_BytesToKey"}

Keys == {0} \cup {EVP_BytesToKey(pw, s) : pw \in Passwords, s \in Salts}

GenKeysRet(h, f) ==
    IF h.flag_encryption_set = 0 THEN -1
    ELSE IF f # "none" THEN -1
    ELSE 0

crypt_gen_keys(pw, f) ==
    /\ UNCHANGED <<so, bvars, avars>>
    /\ fk.live
    /\ LET ret == GenKeysRet(fk, f)
           clobbered == ret # 0 /\ fk.flag_encryption_set # 0 /\ fk.flag_keys_set # 0
       IN /\ IF ret = 0
             THEN fk' = [fk EXCEPT !.key = EVP_BytesToKey(pw, fk.salt), !.flag_keys_set = 1]
             ELSE IF clobbered
             THEN \E k \in Keys : fk' = [fk EXCEPT !.key = k]
             ELSE fk' = fk
          /\ LET st == IF clobbered THEN "other"
                       ELSE NextStage(stage, "crypt_gen_keys", ret = 0)
             IN /\ stage' = st
                /\ made' = Track(made, st, IF ret = 0 THEN pw ELSE made.fk)
          /\ last' = Call("crypt_gen_keys", "",
                          Result(ret, IF ret = 0 THEN "none" ELSE "crypt_gen_keys",
                                 FALSE, 0, <<>>), NoFile)
    /\ UNCHANGED fs

(* crypt_reset: memset to zero, the handle is as new *)
crypt_reset ==
    /\ UNCHANGED <<so, bvars, avars>>
    /\ fk.live
    /\ fk' = NewKeys
    /\ stage' = "new"
    /\ made' = [made EXCEPT !.fk = 0]
    /\ last' = NoCall
    /\ UNCHANGED fs

(***************************************************************************)
(* crypt_encrypt_ex.  f names the step that fails in this call, one of     *)
(* the conditions the code tests; a step the call never reaches does not   *)
(* fail.  The result is [ret, failed, opened, ops, writes]: the value      *)
(* returned, whether a step failed, whether fp_out was opened, the number  *)
(* of cipher operations made and the fwrite calls on fp_out in order.      *)
(***************************************************************************)
EncFaults == {"none", "fopen_in", "fopen_out", "fwrite_prefix", "malloc",
              "EVP_CIPHER_CTX_new", "EVP_EncryptInit_ex", "EVP_EncryptUpdate",
              "fwrite_data", "EVP_EncryptFinal_ex"}

(* "checking if keys were actually generated" *)
EncKeysMissing(h) == h.flag_keys_set = 0

(* the value returned when EVP_CIPHER_CTX_new fails: the branch sets no ret *)
EncCtxNewFailRet == 0

EncHeaderWrites_saltfirst(h) == <<[tag |-> "salt", bytes |-> h.salt],
                                  [tag |-> "prefix", bytes |-> salt_prefix]>>

(* the two fwrite of the framing, in the order the code makes them *)
EncHeaderWrites(h) == <<Write("prefix", salt_prefix), Write("salt", h.salt)>>

RECURSIVE EncLoop(_, _, _, _, _, _)
EncLoop(rest, buf, h, f, ops, ws) ==
    IF rest = <<>>
    THEN IF f = "EVP_EncryptFinal_ex"
         THEN Result(-1, f, TRUE, ops + 1, ws)
         ELSE Result(0, "none", TRUE, ops + 1,
                     Append(ws, Write("final", EVP_EncryptFinal_ex(buf, h.key, h.encryption))))
    ELSE LET u == EVP_EncryptUpdate(buf, Head_n(rest, ChunkLen), h.key, h.encryption)
         IN IF f = "EVP_EncryptUpdate" THEN Result(-1, f, TRUE, ops + 1, ws)
            ELSE IF f = "fwrite_data" THEN Result(-1, f, TRUE, ops + 1, ws)
            ELSE EncLoop(Tail_n(rest, ChunkLen), u.buf, h, f, ops + 1,
                         Append(ws, Write("data", u.out)))

EncryptResult(inC, h, f) ==
    IF inC = NoFile \/ f = "fopen_in" THEN Result(-1, "fopen_in", FALSE, 0, <<>>)
    ELSE IF f = "fopen_out" THEN Result(-1, f, FALSE, 0, <<>>)
    ELSE IF EncKeysMissing(h) THEN Result(-1, "keys", TRUE, 0, <<>>)
    ELSE IF f = "fwrite_prefix" THEN Result(-1, f, TRUE, 0, <<>>)
    ELSE IF f = "malloc" THEN Result(-1, f, TRUE, 0, EncHeaderWrites(h))
    ELSE IF f = "EVP_CIPHER_CTX_new"
         THEN Result(EncCtxNewFailRet, f, TRUE, 0, EncHeaderWrites(h))
    ELSE IF f = "EVP_EncryptInit_ex" THEN Result(-1, f, TRUE, 1, EncHeaderWrites(h))
    ELSE EncLoop(inC, <<>>, h, f, 1, EncHeaderWrites(h))

(* cleanup: fclose both, remove(out) when ret != 0 *)
FileAfter(old, r) ==
    IF r.ret # 0 THEN NoFile
    ELSE IF r.opened THEN Flatten(r.writes)
    ELSE old

crypt_encrypt_ex(in, out, f) ==
    /\ UNCHANGED <<so, bvars, avars>>
    /\ fk.live
    /\ LET r == EncryptResult(fs[in], fk, f)
       IN /\ fs' = [fs EXCEPT ![out] = FileAfter(fs[out], r)]
          /\ last' = Call("crypt_encrypt_ex", in, r, FileAfter(fs[out], r))
          /\ made' = [Track(made, NextStage(stage, "crypt_encrypt_ex", TRUE), made.fk)
                          EXCEPT !.art =
                          IF r.ret = 0 /\ r.step = "none" /\ stage = "enc_ready"
                          THEN [pw |-> made.fk, cipher |-> fk.encryption]
                          ELSE NoMaker]
    /\ stage' = NextStage(stage, "crypt_encrypt_ex", TRUE)
    /\ UNCHANGED fk

(***************************************************************************)
(* crypt_decrypt_ex: never reads the prefix of its own input; it seeks     *)
(* past 8 + sizeof(salt) bytes and decrypts what follows.                  *)
(***************************************************************************)
DecFaults == {"none", "fopen_in", "fopen_out", "malloc", "EVP_CIPHER_CTX_new",
              "EVP_DecryptInit_ex", "EVP_DecryptUpdate"}

DecSaltMissing_skipped(h) == FALSE

(* "checking if keys were actually generated", "checking if salt was extracted" *)
DecKeysMissing(h) == h.flag_keys_set = 0
DecSaltMissing(h) == h.flag_salt_extracted = 0

DecCtxNewFailRet == 0

RECURSIVE DecLoop(_, _, _, _, _, _)
DecLoop(rest, buf, h, f, ops, ws) ==
    IF rest = <<>>
    THEN LET fin == EVP_DecryptFinal_ex(buf, h.key, h.encryption)
         IN IF ~fin.ok
            THEN Result(-1, "EVP_DecryptFinal_ex", TRUE, ops + 1, ws)
            ELSE Result(0, "none", TRUE, ops + 1, Append(ws, Write("final", fin.out)))
    ELSE LET u == EVP_DecryptUpdate(buf, Head_n(rest, ChunkLen), h.key, h.encryption)
         IN IF f = "EVP_DecryptUpdate" THEN Result(-1, f, TRUE, ops + 1, ws)
            ELSE DecLoop(Tail_n(rest, ChunkLen), u.buf, h, f, ops + 1,
                         Append(ws, Write("data", u.out)))

(* fseek(fp_in, 8 + sizeof(fk->salt), SEEK_SET) *)
DecSeek(inC) == Tail_n(inC, Min(8 + SaltLen, Len(inC)))

DecryptResult(inC, h, f) ==
    IF inC = NoFile \/ f = "fopen_in" THEN Result(-1, "fopen_in", FALSE, 0, <<>>)
    ELSE IF f = "fopen_out" THEN Result(-1, f, FALSE, 0, <<>>)
    ELSE IF DecKeysMissing(h) THEN Result(-1, "keys", TRUE, 0, <<>>)
    ELSE IF DecSaltMissing(h) THEN Result(-1, "salt", TRUE, 0, <<>>)
    ELSE IF f = "malloc" THEN Result(-1, f, TRUE, 0, <<>>)
    ELSE IF f = "EVP_CIPHER_CTX_new" THEN Result(DecCtxNewFailRet, f, TRUE, 0, <<>>)
    ELSE IF f = "EVP_DecryptInit_ex" THEN Result(-1, f, TRUE, 1, <<>>)
    ELSE DecLoop(DecSeek(inC), <<>>, h, f, 1, <<>>)

crypt_decrypt_ex(in, f) ==
    /\ UNCHANGED <<so, bvars, avars>>
    /\ fk.live
    /\ LET r == DecryptResult(fs[in], fk, f)
       IN last' = Call("crypt_decrypt_ex", in, r, FileAfter(NoFile, r))
    /\ stage' = NextStage(stage, "crypt_decrypt_ex", TRUE)
    /\ made' = Track(made, NextStage(stage, "crypt_decrypt_ex", TRUE), made.fk)
    /\ UNCHANGED <<fk, fs>>

(***************************************************************************)
(* The digest index.  A record is (path, hex); paths are numbered in       *)
(* their lexicographic byte order.  sort_checksum_file: the log is cut     *)
(* into runs of at most n records, each run is quicksorted by path with a  *)
(* median-of-three pivot, and the runs are merged by taking the least      *)
(* head record (struct minheapnode: the element and the index of its run). *)
(***************************************************************************)
Paths == 1..MaxPath
Digests == 1..MaxDig
element(p, h) == [path |-> p, hex |-> h]
Elements == {element(p, h) : p \in Paths, h \in Digests}

PathsOf(idx) == {idx[i].path : i \in 1..Len(idx)}

(* median_of_three: the index of the median of {low, mid, high} *)
median_of_three(e, low, high) ==
    LET mid == (low + high) \div 2
        a == e[low].path
        b == e[mid].path
        c == e[high].path
    IN IF (a <= b /\ b <= c) \/ (c <= b /\ b <= a) THEN mid
       ELSE IF (b <= a /\ a <= c) \/ (c <= a /\ a <= b) THEN low
       ELSE high

Select(e, Test(_)) == SelectSeq(e, Test)

quicksort_elements_asis(e) == e

RECURSIVE quicksort_elements(_)
quicksort_elements(e) ==
    IF Len(e) <= 1 THEN e
    ELSE LET pivot == e[median_of_three(e, 1, Len(e))].path
             lo(x) == x.path < pivot
             eq(x) == x.path = pivot
             hi(x) == x.path > pivot
         IN quicksort_elements(Select(e, lo)) \o Select(e, eq)
                \o quicksort_elements(Select(e, hi))

RECURSIVE create_initial_runs(_, _)
create_initial_runs(log, n) ==
    IF log = <<>> THEN <<>>
    ELSE <<quicksort_elements(Head_n(log, n))>>
             \o create_initial_runs(Tail_n(log, Min(n, Len(log))), n)

(* the run whose head record is least; the lowest index among equals *)
MinHead(runs) ==
    CHOOSE i \in 1..Len(runs) :
        /\ runs[i] # <<>>
        /\ \A j \in 1..Len(runs) :
               runs[j] # <<>> =>
                   \/ runs[i][1].path < runs[j][1].path
                   \/ runs[i][1].path = runs[j][1].path /\ i <= j

merge_files_firstrun(runs) == IF runs = <<>> THEN <<>> ELSE runs[1]

RECURSIVE merge_files(_)
merge_files(runs) ==
    IF \A i \in 1..Len(runs) : runs[i] = <<>> THEN <<>>
    ELSE LET i == MinHead(runs)
         IN <<runs[i][1]>> \o merge_files([runs EXCEPT ![i] = Tail(runs[i])])

sort_checksum_file(log, n) == merge_files(create_initial_runs(log, n))

(* the state of a sort: the log, the run size, the runs and the output *)
NoSort == [pc |-> "none", log |-> <<>>, n |-> 0, runs |-> <<>>, out |-> <<>>]

(***************************************************************************)
(* The backup run.  tree maps a path to the digest of its content (0: no   *)
(* such file); the file of path p is in directory DirOf(p).  A tar is the  *)
(* sequence of its members; the data of a member is a sequence of          *)
(* records: the (path, digest) of a payload, the records of /checksums,    *)
(* the paths of /removed.  archives holds the final archives in the order  *)
(* they were made.                                                         *)
(***************************************************************************)
DirOf(p) == p % 2
Dirs == {DirOf(p) : p \in Paths}

(***************************************************************************)
(* The directories: directory 0 is a subdirectory of directory 1.  A file  *)
(* is below a root when its directory is the root or a subdirectory of     *)
(* it.  A layout is the list of roots of the options, the exclusion list   *)
(* and the directories whose last component is lost+found.                 *)
(***************************************************************************)
Ancestors(d) == IF d = 0 THEN {1} ELSE {}
Below(d) == {p \in Paths : DirOf(p) = d \/ d \in Ancestors(DirOf(p))}

Roots == {<<1>>, <<1, 0>>, <<1, 1>>}
Layouts ==
    {[directories |-> <<1>>, exclude |-> e, lostfound |-> {}] : e \in {{}, {0}, {1}}}
        \cup {[directories |-> d, exclude |-> {}, lostfound |-> {}] : d \in Roots}
        \cup {[directories |-> <<1>>, exclude |-> {}, lostfound |-> {1}]}

member(dir, p, data) == [dir |-> dir, path |-> p, data |-> data]

(***************************************************************************)
(* The temp files of a run.  ptr tells whether the variable that holds     *)
(* the temp file is non-NULL, open whether its stream is open, file        *)
(* whether the file is on disk; releases counts the closes of the stream.  *)
(* temp_fopen and temp_fclose are the TMPFILE calls of backup.c            *)
(* (temp_fclose closes the stream and removes the file; on NULL it does    *)
(* nothing); temp_file_ex, fclose and remove are the calls of main.c;      *)
(* temp_file leaves no name behind.                                        *)
(***************************************************************************)
Temps == {"prev", "tar", "hashes", "sorted", "removed"}
NoTemp == [made |-> FALSE, ptr |-> FALSE, open |-> FALSE, file |-> FALSE, releases |-> 0]
NoTemps == [t \in Temps |-> NoTemp]

temp_fopen(ts, t) ==
    [ts EXCEPT ![t] = [made |-> TRUE, ptr |-> TRUE, open |-> TRUE, file |-> TRUE,
                       releases |-> 0]]
temp_fclose(ts, t) ==
    IF ts[t].ptr
    THEN [ts EXCEPT ![t].open = FALSE, ![t].file = FALSE, ![t].releases = @ + 1]
    ELSE ts
SetNull(ts, t) == [ts EXCEPT ![t].ptr = FALSE]

temp_file_ex(ts, t) == temp_fopen(ts, t)
temp_file(ts, t) == [temp_fopen(ts, t) EXCEPT ![t].file = FALSE]
fclose(ts, t) == [ts EXCEPT ![t].open = FALSE, ![t].releases = @ + 1]
fopen(ts, t) == [ts EXCEPT ![t].open = TRUE]
remove(ts, t) == [ts EXCEPT ![t].file = FALSE]

(* what extract_prev_checksums did with its temp file: nothing yet *)
NoEp == [temp |-> FALSE, decrypt_to |-> "none", extract_from |-> "none",
         shredded |-> FALSE, removed |-> FALSE]

NoIndex == [open |-> FALSE, recs |-> <<>>]

Idle ==
    [pc |-> "idle", hashes_prev |-> NoIndex, named |-> 0, same |-> FALSE,
     hashes |-> <<>>, tp |-> <<>>, root |-> 0, todo |-> {},
     class |-> [p \in Paths |-> "none"],
     tarerr |-> {}, removed |-> <<>>, made |-> FALSE, final |-> "none",
     saved |-> 0, failed |-> {}, trace |-> <<>>, temps |-> NoTemps, ep |-> NoEp]

NoBackup ==
    /\ tree = [p \in Paths |-> 0]
    /\ cfg = [prog |-> "none", enc_algorithm |-> FALSE, directories |-> <<>>,
              exclude |-> {}, lostfound |-> {}, prev_backup |-> 0]
    /\ archives = <<>>
    /\ run = Idle
    /\ hist = [faults |-> 0, dirty |-> FALSE, runs |-> <<>>]

IsSorted(idx) == \A i \in 1..(Len(idx) - 1) : idx[i].path <= idx[i + 1].path

(***************************************************************************)
(* tar_extract_file: opens the archive (a file that holds no entry is not  *)
(* one: -1), scans the entries for the first whose pathname is the one     *)
(* asked for and writes it out; at the end of the archive without a match  *)
(* it returns ARCHIVE_EOF.                                                 *)
(***************************************************************************)
RECURSIVE ScanEntries(_, _)
ScanEntries(tar, dir) ==
    IF tar = <<>> THEN [ret |-> ARCHIVE_EOF, out |-> <<>>]
    ELSE IF Head(tar).dir = dir THEN [ret |-> 0, out |-> Head(tar).data]
    ELSE ScanEntries(Tail(tar), dir)

tar_extract_file(tar, dir) ==
    IF tar = <<>> THEN [ret |-> -1, out |-> <<>>] ELSE ScanEntries(tar, dir)

(***************************************************************************)
(* extract_prev_checksums of backup.c.  It refuses a prior made without a  *)
(* cipher.  It decrypts in to out, the index path, and then extracts       *)
(* /checksums from tfp_decrypt, the temp file it has just created and      *)
(* never written.  pw tells whether the password typed is the prior's.     *)
(* ep records what the call did with its temp file: where it decrypted     *)
(* to, where it extracted from, whether it shredded the temp file and      *)
(* whether it removed it.                                                  *)
(***************************************************************************)
(* the bytes a decryption leaves: under another password, no archive *)
crypt_decrypt(in, pw) == IF pw = "right" THEN in.tar ELSE <<>>

extract_prev_checksums(in, enc_algorithm, pw) ==
    IF ~enc_algorithm THEN [ret |-> -1, out |-> <<>>, ep |-> NoEp]
    ELSE IF ~in.enc THEN [ret |-> -1, out |-> <<>>, ep |-> NoEp]
    ELSE LET tfp_decrypt == <<>>
             out == crypt_decrypt(in, pw)
             x == tar_extract_file(tfp_decrypt, "/checksums")
             ep == [temp |-> TRUE, decrypt_to |-> "out",
                    extract_from |-> "tfp_decrypt",
                    shredded |-> (x.ret = 0), removed |-> TRUE]
         IN IF x.ret # 0 THEN [ret |-> -1, out |-> <<>>, ep |-> ep]
            ELSE [ret |-> 0, out |-> x.out, ep |-> ep]

(***************************************************************************)
(* extract_prev_checksums of main.c: decrypts to a temp file and extracts  *)
(* /checksums from it; the temp file is shredded after the extraction      *)
(* and left as it is on the returns before it.                             *)
(***************************************************************************)
main_extract_prev_checksums(in, enc_algorithm, pw) ==
    IF ~enc_algorithm THEN [ret |-> 1, out |-> <<>>, ep |-> NoEp]
    ELSE IF ~in.enc THEN [ret |-> 1, out |-> <<>>, ep |-> NoEp]
    ELSE LET fp_decrypt == crypt_decrypt(in, pw)
             x == tar_extract_file(fp_decrypt, "/checksums")
             ep == [temp |-> TRUE, decrypt_to |-> "fp_decrypt",
                    extract_from |-> "fp_decrypt",
                    shredded |-> (x.ret = 0), removed |-> (x.ret = 0)]
         IN IF x.ret # 0 THEN [ret |-> 1, out |-> <<>>, ep |-> ep]
            ELSE [ret |-> 0, out |-> x.out, ep |-> ep]

(***************************************************************************)
(* enum_files is called on each root in turn; it yields the regular files  *)
(* below the root, in any order.  NextRoot moves to the next root that     *)
(* has a file left to yield.                                               *)
(***************************************************************************)
enum_files(d) == {p \in Below(d) : tree[p] # 0}

RECURSIVE NextRoot(_, _)
NextRoot(i, todo) ==
    IF todo # {} \/ i >= Len(cfg.directories) THEN [root |-> i, todo |-> todo]
    ELSE NextRoot(i + 1, enum_files(cfg.directories[i + 1]))

Walking(prior, named) ==
    LET w == NextRoot(0, {})
    IN [Idle EXCEPT !.pc = "walk", !.hashes_prev = prior, !.named = named,
                    !.same = (named > 0 /\ ~hist.dirty),
                    !.root = w.root, !.todo = w.todo]

Summary(r, ret) ==
    [ret |-> ret, named |-> r.named, same |-> r.same, made |-> r.made,
     failed |-> r.failed, final |-> r.final, temps |-> r.temps]

(* the cleanup label of backup(): what is non-NULL is closed *)
backup_cleanup(ts) == temp_fclose(temp_fclose(temp_fclose(ts, "tar"), "hashes"), "prev")

(***************************************************************************)
(* backup(), up to the walk: the prior index is loaded when opt_prev       *)
(* names a prior archive made with the same hash algorithm; when that      *)
(* fails the run goes on without a prior index.  Then the temp file of     *)
(* the tar and the temp file of the log are made; f names the one that     *)
(* cannot be made, which ends the run with -1.                             *)
(***************************************************************************)
OptPrev == {"NULL", "no prev_backup", "named", "other hash_algorithm"}
PrologueFaults == {"none", "tfp_tar", "tfp_hashes"}

backup_load_prev(opt_prev, pw, f) ==
    /\ UNCHANGED <<cvars, so, avars>>
    /\ cfg.prog = "backup.c"
    /\ run.pc = "idle"
    /\ Len(hist.runs) < MaxRuns
    /\ opt_prev = "named" => archives # <<>>
    /\ pw # "right" => opt_prev = "named"
    /\ (pw # "right" \/ f # "none") => hist.faults < MaxFaults
    /\ ~(pw # "right" /\ f # "none")
    /\ LET wanted == opt_prev = "named"
           r == IF wanted
                THEN extract_prev_checksums(archives[Len(archives)],
                                            archives[Len(archives)].enc, pw)
                ELSE [ret |-> -1, out |-> <<>>, ep |-> NoEp]
           loaded == wanted /\ r.ret = 0
           prior == IF loaded THEN [open |-> TRUE, recs |-> r.out] ELSE NoIndex
           t1 == IF ~wanted THEN NoTemps
                 ELSE IF loaded THEN temp_fopen(NoTemps, "prev")
                 ELSE SetNull(temp_fclose(temp_fopen(NoTemps, "prev"), "prev"), "prev")
           t2 == IF f = "tfp_tar" THEN t1 ELSE temp_fopen(t1, "tar")
           t3 == IF f = "none" THEN temp_fopen(t2, "hashes") ELSE t2
           w == [Walking(prior, IF wanted THEN Len(archives) ELSE 0) EXCEPT
                   !.ep = r.ep,
                   !.failed = IF wanted /\ ~loaded THEN {"prior"} ELSE {}]
           end == [w EXCEPT !.pc = "idle", !.root = 0, !.todo = {},
                            !.failed = @ \cup {f},
                            !.trace = IF f = "tfp_hashes" THEN <<"tar_close">> ELSE <<>>,
                            !.temps = backup_cleanup(t3)]
       IN IF f = "none"
          THEN /\ run' = [w EXCEPT !.temps = t3]
               /\ hist' = [hist EXCEPT !.dirty = FALSE,
                                       !.faults = IF pw = "right" THEN @ ELSE @ + 1]
          ELSE /\ run' = end
               /\ hist' = [hist EXCEPT !.dirty = FALSE, !.faults = @ + 1,
                                       !.runs = Append(@, Summary(end, -1))]
    /\ UNCHANGED <<tree, cfg, archives>>

(***************************************************************************)
(* main() of main.c, up to the walk: a prior archive that cannot be        *)
(* opened, or whose index cannot be extracted, ends the run with 1, and    *)
(* so does a temp file of the log that cannot be made.  These returns      *)
(* leave the temp files made so far as they are.                           *)
(***************************************************************************)
main_load_prev(pw, f) ==
    /\ UNCHANGED <<cvars, so, avars>>
    /\ cfg.prog = "main.c"
    /\ run.pc = "idle"
    /\ Len(hist.runs) < MaxRuns
    /\ f \in {"none", "tfp_hashes"}
    /\ pw # "right" => cfg.prev_backup > 0
    /\ (pw # "right" \/ f # "none") => hist.faults < MaxFaults
    /\ ~(pw # "right" /\ f # "none")
    /\ LET r == IF cfg.prev_backup > 0
                THEN main_extract_prev_checksums(archives[cfg.prev_backup],
                                                 cfg.enc_algorithm, pw)
                ELSE [ret |-> 1, out |-> <<>>, ep |-> NoEp]
           p1 == fclose(temp_file_ex(NoTemps, "prev"), "prev")
           aborted == [Idle EXCEPT !.named = 0, !.ep = r.ep, !.failed = {"prior"},
                                   !.temps = p1]
           t1 == IF cfg.prev_backup = 0 THEN NoTemps ELSE fopen(p1, "prev")
           t2 == temp_file_ex(t1, "tar")
           t3 == IF f = "none" THEN temp_file(t2, "hashes") ELSE t2
           prior == IF cfg.prev_backup = 0 THEN NoIndex
                    ELSE [open |-> TRUE, recs |-> r.out]
           w == [Walking(prior, IF cfg.prev_backup = 0 THEN 0 ELSE cfg.prev_backup)
                   EXCEPT !.ep = r.ep, !.temps = t3]
           end == [w EXCEPT !.pc = "idle", !.root = 0, !.todo = {},
                            !.failed = {f}]
       IN IF cfg.prev_backup # 0 /\ r.ret # 0
          THEN /\ f = "none"
               /\ run' = aborted
               /\ hist' = [hist EXCEPT
                             !.dirty = FALSE,
                             !.faults = IF pw = "right" THEN @ ELSE @ + 1,
                             !.runs = Append(@, Summary(aborted, 1))]
          ELSE IF f # "none"
          THEN /\ run' = end
               /\ hist' = [hist EXCEPT !.dirty = FALSE, !.faults = @ + 1,
                                       !.runs = Append(@, Summary(end, 1))]
          ELSE /\ run' = w
               /\ hist' = [hist EXCEPT !.dirty = FALSE]
    /\ UNCHANGED <<tree, cfg, archives>>

(***************************************************************************)
(* search_file: the digest recorded for a path in a sorted index, 0 when   *)
(* the path is not there.  On an index that is not sorted the search may   *)
(* also miss a path that is there.                                         *)
(***************************************************************************)
search_file(idx, p) ==
    IF p \in PathsOf(idx)
    THEN idx[CHOOSE i \in 1..Len(idx) : idx[i].path = p].hex
    ELSE 0

ChangeDetector(p, hex, prior, missed) ==
    IF ~prior.open THEN "New"
    ELSE LET found == IF missed THEN 0 ELSE search_file(prior.recs, p)
         IN IF found = 0 THEN "New"
            ELSE IF found = hex THEN "Unchanged"
            ELSE "Changed"

(***************************************************************************)
(* add_checksum_to_file: digests the file, appends (path, hex) to the log  *)
(* and returns 1 for a file found unchanged in the prior index, 0 for a    *)
(* changed or new one; a digest that fails appends nothing and returns a   *)
(* negative value.                                                         *)
(***************************************************************************)
add_checksum_to_file(p, hex, log, prior, digest, missed) ==
    IF digest # "ok" THEN [err |-> -1, class |-> "Error", log |-> log]
    ELSE LET c == ChangeDetector(p, hex, prior, missed)
         IN [err |-> IF c = "Unchanged" THEN 1 ELSE 0, class |-> c,
             log |-> Append(log, element(p, hex))]

(***************************************************************************)
(* func: the step enum_files runs on each regular file, in any order of    *)
(* the files.  digest and add tell whether the digest and the tar entry    *)
(* of this file go through.                                                *)
(***************************************************************************)
func(p, digest, add, missed) ==
    /\ UNCHANGED <<cvars, so, avars>>
    /\ run.pc = "walk"
    /\ p \in run.todo
    /\ missed => (run.hashes_prev.open /\ ~IsSorted(run.hashes_prev.recs))
    /\ (digest # "ok" \/ add # "ok") => hist.faults < MaxFaults
    /\ ~(digest # "ok" /\ add # "ok")
    /\ IF DirOf(p) \in cfg.lostfound \/ DirOf(p) \in cfg.exclude
       THEN /\ digest = "ok" /\ add = "ok" /\ ~missed
            /\ LET w == NextRoot(run.root, run.todo \ Below(DirOf(p)))
               IN run' = [run EXCEPT !.root = w.root, !.todo = w.todo,
                                     !.class[p] = IF @ = "none" THEN "Excluded" ELSE @]
            /\ UNCHANGED hist
       ELSE LET a == add_checksum_to_file(p, tree[p], run.hashes, run.hashes_prev,
                                          digest, missed)
                w == NextRoot(run.root, run.todo \ {p})
            IN IF a.err = 1
               THEN /\ add = "ok"
                    /\ run' = [run EXCEPT !.root = w.root, !.todo = w.todo,
                                          !.class[p] = a.class, !.hashes = a.log]
                    /\ UNCHANGED hist
               ELSE /\ run' = [run EXCEPT
                                 !.root = w.root, !.todo = w.todo,
                                 !.class[p] = a.class,
                                 !.hashes = a.log,
                                 !.tarerr = IF add = "ok" THEN @ ELSE @ \cup {p},
                                 !.trace = IF add = "ok" THEN Append(@, "/files")
                                           ELSE @,
                                 !.tp = IF add = "ok"
                                        THEN Append(@, member("/files", p,
                                                              <<element(p, tree[p])>>))
                                        ELSE @]
                    /\ hist' = [hist EXCEPT
                                  !.faults = IF digest = "ok" /\ add = "ok"
                                             THEN @ ELSE @ + 1]
    /\ UNCHANGED <<tree, cfg, archives>>

(***************************************************************************)
(* RemovedDeriver: a merge walk over the prior and the current index,      *)
(* both sorted, that emits the paths of the prior that the current does    *)
(* not have.                                                               *)
(***************************************************************************)
RECURSIVE RemovedDeriver(_, _)
RemovedDeriver(prior, current) ==
    IF prior = <<>> THEN <<>>
    ELSE IF current = <<>>
         THEN <<element(prior[1].path, 0)>> \o RemovedDeriver(Tail(prior), current)
    ELSE IF prior[1].path < current[1].path
         THEN <<element(prior[1].path, 0)>> \o RemovedDeriver(Tail(prior), current)
    ELSE IF prior[1].path = current[1].path
         THEN RemovedDeriver(Tail(prior), current)
    ELSE RemovedDeriver(prior, Tail(current))

(* create_removed_list(checksum_file, out_file): it is given one index *)
create_removed_list(checksum_file) == RemovedDeriver(<<>>, checksum_file)

(***************************************************************************)
(* backup() after the walk: the prior index is closed, the log is sorted   *)
(* into a temp file that becomes /checksums.  When that temp file cannot   *)
(* be made, backup() adds the unsorted log as /checksums and main() adds   *)
(* nothing.  backup() never closes the sorted temp file; main() closes     *)
(* and removes it, and removes the prior index file by its name.           *)
(***************************************************************************)
backup_checksums(f) ==
    /\ UNCHANGED <<cvars, so, avars>>
    /\ run.pc = "walk"
    /\ run.todo = {}
    /\ f # "none" => hist.faults < MaxFaults
    /\ LET sorted == sort_checksum_file(run.hashes, MAX_RUN_SIZE)
           added == f = "none" \/ cfg.prog = "backup.c"
           t1 == IF cfg.prog = "backup.c" THEN temp_fclose(run.temps, "prev")
                 ELSE remove(run.temps, "prev")
           t2 == IF f # "none" THEN t1
                 ELSE IF cfg.prog = "backup.c" THEN temp_fopen(t1, "sorted")
                 ELSE remove(fclose(temp_file_ex(t1, "sorted"), "sorted"), "sorted")
       IN run' = [run EXCEPT
                    !.pc = "removed",
                    !.hashes_prev = [@ EXCEPT !.open = FALSE],
                    !.temps = t2,
                    !.failed = IF f = "none" THEN @ ELSE @ \cup {"tfp_sorted"},
                    !.trace = IF added THEN Append(@, "/checksums") ELSE @,
                    !.tp = IF added
                           THEN Append(@, member("/checksums", 0,
                                                 IF f = "none" THEN sorted
                                                 ELSE run.hashes))
                           ELSE @]
    /\ hist' = [hist EXCEPT !.faults = IF f = "none" THEN @ ELSE @ + 1]
    /\ UNCHANGED <<tree, cfg, archives>>

(***************************************************************************)
(* The removed list, made from the current log, becomes /removed; the log  *)
(* and the removed list are closed.  f: the temp file of the list cannot   *)
(* be made (this failure is followed in backup() only).                    *)
(***************************************************************************)
backup_removed(f) ==
    /\ UNCHANGED <<cvars, so, avars>>
    /\ run.pc = "removed"
    /\ f # "none" => (hist.faults < MaxFaults /\ cfg.prog = "backup.c")
    /\ LET list == create_removed_list(run.hashes)
           t1 == IF f # "none" THEN run.temps
                 ELSE IF cfg.prog = "backup.c" THEN temp_fopen(run.temps, "removed")
                 ELSE temp_file(run.temps, "removed")
           t2 == IF cfg.prog = "backup.c"
                 THEN temp_fclose(temp_fclose(t1, "hashes"), "removed")
                 ELSE fclose(fclose(t1, "hashes"), "removed")
       IN run' = [run EXCEPT !.pc = "close",
                             !.temps = t2,
                             !.failed = IF f = "none" THEN @ ELSE @ \cup {"tfp_removed"},
                             !.removed = IF f = "none" THEN list ELSE <<>>,
                             !.trace = IF f = "none" THEN Append(@, "/removed") ELSE @,
                             !.tp = IF f = "none"
                                    THEN Append(@, member("/removed", 0, list))
                                    ELSE @]
    /\ hist' = [hist EXCEPT !.faults = IF f = "none" THEN @ ELSE @ + 1]
    /\ UNCHANGED <<tree, cfg, archives>>

(***************************************************************************)
(* tar_close: it returns the result of no call it makes (0 also when       *)
(* archive_write_close fails), and the caller makes a return other than 0  *)
(* a warning.  The run goes on to the final step.                          *)
(***************************************************************************)
backup_tar_close_skipped(f) ==
    /\ UNCHANGED <<cvars, so, avars>>
    /\ run.pc = "close"
    /\ f = "none"
    /\ run' = [run EXCEPT !.pc = "final"]
    /\ UNCHANGED <<tree, cfg, archives, hist>>

backup_tar_close(f) ==
    /\ UNCHANGED <<cvars, so, avars>>
    /\ run.pc = "close"
    /\ f # "none" => hist.faults < MaxFaults
    /\ run' = [run EXCEPT !.pc = "final",
                          !.trace = Append(@, "tar_close"),
                          !.failed = IF f = "none" THEN @ ELSE @ \cup {"tar_close"}]
    /\ hist' = [hist EXCEPT !.faults = IF f = "none" THEN @ ELSE @ + 1]
    /\ UNCHANGED <<tree, cfg, archives>>

(***************************************************************************)
(* The final step: encrypt_file, rename_ex or copy_fp of the temp tar to   *)
(* the final path.  f = "fails": the step fails and leaves no file there;  *)
(* f = "partial": it fails and leaves a file that is no archive (the copy  *)
(* of rename_ex stopped by a write error, an encryption stopped after the  *)
(* header, the file main() has opened for writing).  Both are warnings.    *)
(* f = "fopen": main() cannot open the final path and returns 1.           *)
(***************************************************************************)
FinalFaults == {"none", "fails", "partial", "fopen"}

backup_final(f) ==
    /\ UNCHANGED <<cvars, so, avars>>
    /\ run.pc = "final"
    /\ f # "none" => hist.faults < MaxFaults
    /\ f = "fails" => cfg.prog = "backup.c"
    /\ f = "fopen" => cfg.prog = "main.c"
    /\ archives' = IF f = "none"
                   THEN Append(archives, [enc |-> cfg.enc_algorithm, tar |-> run.tp])
                   ELSE archives
    /\ LET moved == f = "none" /\ cfg.prog = "backup.c" /\ ~cfg.enc_algorithm
           t1 == IF moved \/ (cfg.prog = "main.c" /\ f # "fopen")
                 THEN remove(run.temps, "tar") ELSE run.temps
           r == [run EXCEPT !.made = (f = "none"),
                            !.final = CASE f = "none" -> "archive"
                                        [] f = "partial" -> "partial"
                                        [] OTHER -> "none",
                            !.failed = IF f = "none" THEN @ ELSE @ \cup {"final"},
                            !.trace = IF f = "fopen" THEN @ ELSE Append(@, "final"),
                            !.temps = t1]
       IN IF f = "fopen"
          THEN /\ run' = [r EXCEPT !.pc = "idle"]
               /\ hist' = [hist EXCEPT !.faults = @ + 1,
                                       !.runs = Append(@, Summary(r, 1))]
          ELSE /\ run' = [r EXCEPT !.pc = "config"]
               /\ hist' = [hist EXCEPT !.faults = IF f = "none" THEN @ ELSE @ + 1]
    /\ UNCHANGED <<tree, cfg>>

(***************************************************************************)
(* The end of the run: the options are written and 0 is returned.  main()  *)
(* of main.c first makes prev_backup the output path, whether or not the   *)
(* output is an archive; backup() writes the options it was given, and     *)
(* then closes the tar once more and closes what is non-NULL of the temp   *)
(* tar, the log and the prior index.                                       *)
(***************************************************************************)
backup_finish ==
    /\ UNCHANGED <<cvars, so, avars>>
    /\ run.pc = "config"
    /\ cfg' = IF cfg.prog = "main.c"
              THEN [cfg EXCEPT !.prev_backup = IF run.made THEN Len(archives) ELSE -1]
              ELSE cfg
    /\ LET r == [run EXCEPT
                   !.pc = "idle",
                   !.saved = cfg'.prev_backup,
                   !.trace = IF cfg.prog = "backup.c"
                             THEN @ \o <<"config", "tar_close">>
                             ELSE Append(@, "config"),
                   !.temps = IF cfg.prog = "backup.c" THEN backup_cleanup(@) ELSE @]
       IN /\ run' = r
          /\ hist' = [hist EXCEPT !.runs = Append(@, Summary(r, 0))]
    /\ UNCHANGED <<tree, archives>>

(* between two runs one file is written, created or deleted *)
Touch(p, d) ==
    /\ UNCHANGED <<cvars, so, avars>>
    /\ run.pc = "idle"
    /\ hist.runs # <<>>
    /\ Len(hist.runs) < MaxRuns
    /\ ~hist.dirty
    /\ tree[p] # d
    /\ tree' = [tree EXCEPT ![p] = d]
    /\ hist' = [hist EXCEPT !.dirty = TRUE]
    /\ UNCHANGED <<cfg, archives, run>>

(***************************************************************************)
(* SpecBackup: up to MaxRuns runs of backup() of backup.c, or of main()    *)
(* of main.c, on a tree that changes between the runs.                     *)
(***************************************************************************)
InitBackup ==
    /\ fk = FreedKeys
    /\ stage = "new"
    /\ made = NoMade
    /\ last = NoCall
    /\ fs = [plain |-> <<>>, art |-> NoFile]
    /\ so = NoSort
    /\ NoAux
    /\ tree \in [Paths -> 0..MaxDig]
    /\ \E prog \in {"backup.c", "main.c"}, enc \in BOOLEAN, l \in Layouts :
          cfg = [prog |-> prog, enc_algorithm |-> enc, directories |-> l.directories,
                 exclude |-> l.exclude, lostfound |-> l.lostfound, prev_backup |-> 0]
    /\ archives = <<>>
    /\ run = Idle
    /\ hist = [faults |-> 0, dirty |-> FALSE, runs |-> <<>>]

NextBackup ==
    \/ \E o \in OptPrev, pw \in {"right", "wrong"}, f \in PrologueFaults :
          backup_load_prev(o, pw, f)
    \/ \E pw \in {"right", "wrong"}, f \in PrologueFaults : main_load_prev(pw, f)
    \/ \E p \in Paths, digest \in {"ok", "fails"}, add \in {"ok", "fails"},
          missed \in BOOLEAN : func(p, digest, add, missed)
    \/ \E f \in {"none", "temp_fopen"} : backup_checksums(f)
    \/ \E f \in {"none", "temp_fopen"} : backup_removed(f)
    \/ \E f \in {"none", "archive_write_close"} : backup_tar_close(f)
    \/ \E f \in FinalFaults : backup_final(f)
    \/ backup_finish
    \/ \E p \in Paths, d \in 0..MaxDig : Touch(p, d)

SpecBackup == InitBackup /\ [][NextBackup]_vars

(***************************************************************************)
(* SpecSort: sort_checksum_file in its two phases, on any append log and   *)
(* any run size.                                                           *)
(***************************************************************************)
sort_create_initial_runs ==
    /\ so.pc = "log"
    /\ so' = [so EXCEPT !.pc = "runs", !.runs = create_initial_runs(so.log, so.n)]
    /\ UNCHANGED <<cvars, bvars, avars>>

sort_merge_files ==
    /\ so.pc = "runs"
    /\ so' = [so EXCEPT !.pc = "sorted", !.out = merge_files(so.runs)]
    /\ UNCHANGED <<cvars, bvars, avars>>

InitSort ==
    /\ fk = FreedKeys
    /\ stage = "new"
    /\ made = NoMade
    /\ last = NoCall
    /\ fs = [plain |-> <<>>, art |-> NoFile]
    /\ NoBackup
    /\ NoAux
    /\ \E log \in SeqsUpTo(Elements, MaxLog), n \in 1..MaxRun :
           so = [pc |-> "log", log |-> log, n |-> n, runs |-> <<>>, out |-> <<>>]

NextSort == sort_create_initial_runs \/ sort_merge_files

SpecSort == InitSort /\ [][NextSort]_vars

(***************************************************************************)
(* SpecCrypt: any order of calls on one handle, over the payload "plain"   *)
(* and the artifact "art".  The output of crypt_decrypt_ex is a scratch    *)
(* file of the caller that nothing reads back: last.out holds it.          *)
(***************************************************************************)
InitCrypt ==
    /\ fk = FreedKeys
    /\ stage = "new"
    /\ made = NoMade
    /\ last = NoCall
    /\ \E p \in Payloads : fs = [plain |-> p, art |-> NoFile]
    /\ so = NoSort
    /\ NoBackup
    /\ NoAux

NextCrypt ==
    \/ crypt_new
    \/ crypt_free
    \/ crypt_reset
    \/ \E s \in Salts : crypt_set_salt(s)
    \/ \E c \in Ciphers : crypt_set_encryption(c)
    \/ \E src \in RandSources :
          \E s \in (IF src = "none" THEN {ZeroSalt} ELSE Salts) : crypt_gen_salt(src, s)
    \/ \E in \in {"art", "plain"} : crypt_extract_salt(in)
    \/ \E f \in GenKeysFaults :
          \E pw \in (IF f = "none" THEN Passwords ELSE {1}) : crypt_gen_keys(pw, f)
    \/ \E f \in EncFaults : crypt_encrypt_ex("plain", "art", f)
    \/ \E in \in {"art", "plain"}, f \in DecFaults : crypt_decrypt_ex(in, f)

SpecCrypt == InitCrypt /\ [][NextCrypt]_vars

(***************************************************************************)
(* SpecHelper: the password helpers of backup.c and main.c, one call per   *)
(* step, in a process that starts with any RLIMIT_CORE.  hv holds the      *)
(* limit, the statics of __coredumps, and of the last call: its function,  *)
(* its inputs, the limit before it, the calls it made in order, and what   *)
(* it returned.                                                            *)
(***************************************************************************)
MaxLimit == 2
Limits == 0..MaxLimit

(* what a build can do at undefined behaviour *)
Outcomes == {"proceeds", "crash"}

(* getrlimit and setrlimit of the disable, setrlimit of the restore *)
Syscalls == [get : BOOLEAN, set : BOOLEAN, restore : BOOLEAN]

EncryptFileFaults == {"none", "crypt_new", "crypt_set_encryption",
                      "crypt_getpassword", "crypt_gen_keys", "crypt_encrypt_ex"}

ExtractFaults == {"none", "NULL", "crypt_new", "crypt_set_encryption",
                  "crypt_extract_salt", "crypt_getpassword", "crypt_gen_keys",
                  "temp_fopen", "crypt_decrypt_ex", "tar_extract_file"}

NoCrypt ==
    /\ fk = FreedKeys
    /\ stage = "new"
    /\ made = NoMade
    /\ last = NoCall
    /\ fs = [plain |-> <<>>, art |-> NoFile]

Process(l) ==
    [pc |-> "started", rlimit |-> l, rl_prev |-> 0, previously_disabled |-> FALSE,
     fn |-> "none", fault |-> "none", src |-> "RAND_bytes", before |-> l,
     trace |-> <<>>, ret |-> 0]

(* __coredumps(enable) on the process p *)
coredumps(p, enable, get_ok, set_ok) ==
    IF ~enable
    THEN [p EXCEPT !.rl_prev = IF get_ok THEN p.rlimit ELSE @,
                   !.rlimit = IF set_ok THEN 0 ELSE @,
                   !.previously_disabled = TRUE]
    ELSE IF ~p.previously_disabled THEN p
    ELSE [p EXCEPT !.rlimit = IF set_ok THEN p.rl_prev ELSE @,
                   !.previously_disabled = FALSE]

disable_core_dumps(p, sys) == coredumps(p, FALSE, sys.get, sys.set)
enable_core_dumps(p, sys) == coredumps(p, TRUE, TRUE, sys.restore)

(* main.c: setrlimit alone *)
main_disable_core_dumps(p, sys) ==
    [p EXCEPT !.rlimit = IF sys.set THEN 0 ELSE @]

Entered(fn, f, src) ==
    [hv EXCEPT !.fn = fn, !.fault = f, !.src = src, !.before = hv.rlimit,
               !.trace = <<>>, !.ret = 0]

Returned(p, t, ret) == [p EXCEPT !.trace = t, !.ret = ret, !.pc = "returned"]
Crashed(p, t) == [p EXCEPT !.trace = t, !.pc = "crashed"]

(* backup.c encrypt_file.  ub: the read of the uninitialised enc at the    *)
(* prompt; ub2: the second crypt_free of the freed handle.                 *)
encrypt_file(f, src, ub, ub2, sys) ==
    /\ UNCHANGED <<cvars, so, bvars, sv, ov, tv>>
    /\ hv.pc \in {"started", "returned"}
    /\ LET p == disable_core_dumps(Entered("encrypt_file", f, src), sys)
           t1 == <<"disable_core_dumps", "crypt_new">>
           t2 == t1 \o <<"crypt_set_encryption">>
           t3 == t2 \o <<"crypt_gen_salt">>
           t4 == t3 \o <<"crypt_getpassword">>
           t5 == t4 \o <<"crypt_gen_keys", "crypt_scrub">>
           t6 == t5 \o <<"crypt_encrypt_ex">>
           cleanup(t) ==
               Returned(enable_core_dumps(p, sys),
                        t \o <<"crypt_free", "enable_core_dumps">>, 0)
       IN hv' = IF f = "crypt_new" THEN Returned(p, t1, -1)
                ELSE IF f = "crypt_set_encryption" THEN cleanup(t2)
                ELSE IF crypt_scrub_ret(src) # 0 THEN cleanup(t3)
                ELSE IF ub = "crash" THEN Crashed(p, t3)
                ELSE IF f = "crypt_getpassword" THEN cleanup(t4 \o <<"crypt_scrub">>)
                ELSE IF f = "crypt_gen_keys" THEN cleanup(t5)
                ELSE IF f = "crypt_encrypt_ex"
                     THEN IF ub2 = "crash"
                          THEN Crashed(p, t6 \o <<"crypt_free", "crypt_free">>)
                          ELSE cleanup(t6 \o <<"crypt_free">>)
                ELSE cleanup(t6)

(* backup.c extract_prev_checksums, every way out of it *)
extract_prev_checksums_exits(f, ub2, sys) ==
    /\ UNCHANGED <<cvars, so, bvars, sv, ov, tv>>
    /\ hv.pc \in {"started", "returned"}
    /\ LET e == Entered("extract_prev_checksums", f, "RAND_bytes")
           p == disable_core_dumps(e, sys)
           t1 == <<"disable_core_dumps", "crypt_new">>
           t2 == t1 \o <<"crypt_set_encryption">>
           t3 == t2 \o <<"crypt_extract_salt">>
           t4 == t3 \o <<"crypt_getpassword">>
           t5 == t4 \o <<"crypt_gen_keys", "crypt_scrub">>
           t6 == t5 \o <<"temp_fopen">>
           t7 == t6 \o <<"crypt_decrypt_ex">>
           t8 == t7 \o <<"tar_extract_file">>
           cleanup(t, tfp, ret) ==
               Returned(enable_core_dumps(p, sys),
                        t \o <<"crypt_free">>
                          \o (IF tfp THEN <<"temp_fclose">> ELSE <<>>)
                          \o <<"enable_core_dumps">>, ret)
       IN hv' = IF f = "NULL" THEN Returned(e, <<>>, -1)
                ELSE IF f = "crypt_new" THEN Returned(p, t1, -1)
                ELSE IF f = "crypt_set_encryption" THEN cleanup(t2, FALSE, -1)
                ELSE IF f = "crypt_extract_salt" THEN cleanup(t3, FALSE, -1)
                ELSE IF f = "crypt_getpassword" THEN cleanup(t4, FALSE, -1)
                ELSE IF f = "crypt_gen_keys" THEN cleanup(t5, FALSE, -1)
                ELSE IF f = "temp_fopen" THEN cleanup(t6, FALSE, -1)
                ELSE IF f = "crypt_decrypt_ex"
                     THEN IF ub2 = "crash"
                          THEN Crashed(p, t7 \o <<"crypt_free", "crypt_free">>)
                          ELSE cleanup(t7 \o <<"crypt_free">>, TRUE, -1)
                ELSE IF f = "tar_extract_file" THEN cleanup(t8, TRUE, -1)
                ELSE cleanup(t8 \o <<"shred_file">>, TRUE, 0)

(* the crypt_scrub that main.c links: after the fallback it returns the    *)
(* error code of the library, err; with no source it exits the process     *)
MainFaults == {"none", "crypt_set_encryption", "crypt_getpassword",
               "crypt_gen_keys", "crypt_encrypt_ex"}

(* main.c encrypt_file *)
main_encrypt_file(f, src, err, sys) ==
    /\ UNCHANGED <<cvars, so, bvars, sv, ov, tv>>
    /\ hv.pc \in {"started", "returned"}
    /\ LET p == main_disable_core_dumps(Entered("main_encrypt_file", f, src), sys)
           t1 == <<"disable_core_dumps", "crypt_set_encryption">>
           t2 == t1 \o <<"crypt_gen_salt">>
           t3 == t2 \o <<"crypt_getpassword">>
           t4 == t3 \o <<"crypt_gen_keys", "crypt_scrub">>
           t5 == t4 \o <<"crypt_encrypt_ex">>
       IN hv' = IF f = "crypt_set_encryption" THEN Returned(p, t1, 1)
                ELSE IF src = "none" THEN [p EXCEPT !.trace = t2, !.pc = "exited"]
                ELSE IF src = "urandom" /\ err # 0 THEN Returned(p, t2, 1)
                ELSE IF f = "crypt_getpassword"
                     THEN Returned(p, t3 \o <<"crypt_scrub">>, 1)
                ELSE IF f = "crypt_gen_keys" THEN Returned(p, t4, 1)
                ELSE IF f = "crypt_encrypt_ex"
                     THEN Returned(p, t5 \o <<"crypt_free">>, 1)
                ELSE Returned(p, t5 \o <<"crypt_free">>, 0)

InitHelper ==
    /\ NoCrypt
    /\ so = NoSort
    /\ NoBackup
    /\ sv = [pc |-> "none"] /\ ov = [pc |-> "none"] /\ tv = [pc |-> "none"]
    /\ \E l \in Limits : hv = Process(l)

NextHelper ==
    \/ \E f \in EncryptFileFaults, src \in RandSources, ub \in Outcomes,
          ub2 \in Outcomes, sys \in Syscalls : encrypt_file(f, src, ub, ub2, sys)
    \/ \E f \in ExtractFaults, ub2 \in Outcomes, sys \in Syscalls :
          extract_prev_checksums_exits(f, ub2, sys)
    \/ \E f \in MainFaults, src \in RandSources, err \in 0..1, sys \in Syscalls :
          main_encrypt_file(f, src, err, sys)

SpecHelper == InitHelper /\ [][NextHelper]_vars

(***************************************************************************)
(* SpecScrub: the scrub of the password buffer after crypt_getpassword has *)
(* filled it, for every length of password the buffer can hold and every   *)
(* byte crypt_randc can return.                                            *)
(***************************************************************************)
PwBufLen == 1024
ScrubPad == 5
ScrubSpread == 11

(* the length handed to crypt_scrub *)
scrub_len(n, c) == n + ScrubPad + (c % ScrubSpread)

crypt_scrub_pwbuffer(c) ==
    /\ UNCHANGED <<cvars, so, bvars, hv, ov, tv>>
    /\ sv.pc = "password"
    /\ sv' = [sv EXCEPT !.pc = "scrubbed", !.randc = c,
                        !.len = scrub_len(sv.strlen, c)]

InitScrub ==
    /\ NoCrypt
    /\ so = NoSort
    /\ NoBackup
    /\ hv = [pc |-> "none"] /\ ov = [pc |-> "none"] /\ tv = [pc |-> "none"]
    /\ \E n \in 0..(PwBufLen - 1) :
           sv = [pc |-> "password", strlen |-> n, randc |-> 0, len |-> 0]

NextScrub == \E c \in 0..(ByteMod - 1) : crypt_scrub_pwbuffer(c)

SpecScrub == InitScrub /\ [][NextScrub]_vars

(***************************************************************************)
(* SpecOptions: the two ways the options reach the program.  The options   *)
(* file: write_options_tofile and then parse_options_fromfile of           *)
(* options/options.c, on any DIRECTORIES and EXCLUDE lists.  The command   *)
(* line: main of main.c on any argv, with parse_options_cmdline of         *)
(* options.c.  A string is a sequence of bytes other than 0.               *)
(***************************************************************************)
MaxChar == 1
MaxStr == 2
MaxList == 2
MaxArgs == 2

Strings == SeqsUpTo(1..MaxChar, MaxStr) \ {<<>>}
StringArrays == SeqsUpTo(Strings, MaxList)

(* the strings of a list one after the other, each with its '\0' *)
RECURSIVE JoinStrings(_)
JoinStrings(sa) ==
    IF sa = <<>> THEN <<>> ELSE Head(sa) \o <<0>> \o JoinStrings(Tail(sa))

(* strlen(&str[ptr]) and the string there; ptr counts from 0 *)
RECURSIVE strlen(_, _)
strlen(str, ptr) == IF str[ptr + 1] = 0 THEN 0 ELSE 1 + strlen(str, ptr + 1)

StrAt(str, ptr) == SubSeq(str, ptr + 1, ptr + strlen(str, ptr))

(* the loop over the value of DIRECTORIES *)
RECURSIVE ParseDirectories(_, _)
ParseDirectories(str, ptr) ==
    IF ptr >= Len(str) THEN <<>>
    ELSE <<StrAt(str, ptr)>> \o ParseDirectories(str, ptr + strlen(str, ptr) + 1)

(* the loop over the value of EXCLUDE: it steps by strlen(str) *)
RECURSIVE ParseExclude(_, _)
ParseExclude(str, ptr) ==
    IF ptr >= Len(str) THEN <<>>
    ELSE <<StrAt(str, ptr)>> \o ParseExclude(str, ptr + strlen(str, 0) + 1)

sa_cmp(a, b) == IF a = b THEN 0 ELSE 1

options_cmp(opt1, opt2) ==
    IF sa_cmp(opt1.directories, opt2.directories) # 0
    THEN sa_cmp(opt1.directories, opt2.directories)
    ELSE sa_cmp(opt1.exclude, opt2.exclude)

options_new == [directories |-> <<>>, exclude |-> <<>>]

write_options_tofile ==
    /\ UNCHANGED <<cvars, so, bvars, hv, sv, tv>>
    /\ ov.pc = "options"
    /\ ov' = [ov EXCEPT !.pc = "written",
                        !.file = [DIRECTORIES |-> JoinStrings(ov.opt.directories),
                                  EXCLUDE |-> JoinStrings(ov.opt.exclude)]]

parse_options_fromfile ==
    /\ UNCHANGED <<cvars, so, bvars, hv, sv, tv>>
    /\ ov.pc = "written"
    /\ ov' = [ov EXCEPT !.pc = "parsed",
                        !.output = [directories |-> ParseDirectories(ov.file.DIRECTORIES, 0),
                                    exclude |-> ParseExclude(ov.file.EXCLUDE, 0)]]

(* the command line *)
Args == {"-h", "-o", "-v", "-x", "-z", "d"}
Argvs == {<<"ezbackup">> \o s : s \in SeqsUpTo(Args, MaxArgs)}
IsDash(a) == a \notin {"ezbackup", "d"}

(* the first index from i on at which argv has an option, argc if none *)
RECURSIVE NextDash(_, _)
NextDash(argv, i) ==
    IF i >= Len(argv) \/ IsDash(argv[i + 1]) THEN i ELSE NextDash(argv, i + 1)

NoOptions == [directories |-> <<>>, exclude |-> <<>>, file_out |-> "NULL",
              verbose |-> FALSE]

(* the loop of parse_options_cmdline from argv[i] on; ub: strlen of the    *)
(* NULL after the last argument                                            *)
RECURSIVE CmdlineLoop(_, _, _, _)
CmdlineLoop(argv, i, out, ub) ==
    IF i >= Len(argv)
    THEN [pc |-> "returned", ret |-> 0,
          out |-> IF out.directories = <<>>
                  THEN [out EXCEPT !.directories = <<"/">>] ELSE out]
    ELSE LET a == argv[i + 1]
         IN IF a = "-h" THEN [pc |-> "exited", ret |-> 0, out |-> out]
            ELSE IF a = "-o"
                 THEN IF i + 1 >= Len(argv)
                      THEN IF ub = "crash"
                           THEN [pc |-> "crashed", ret |-> 0, out |-> out]
                           ELSE CmdlineLoop(argv, i + 2,
                                            [out EXCEPT !.file_out = ""], ub)
                      ELSE CmdlineLoop(argv, i + 2,
                                       [out EXCEPT !.file_out = argv[i + 2]], ub)
            ELSE IF a = "-v"
                 THEN CmdlineLoop(argv, i + 1, [out EXCEPT !.verbose = TRUE], ub)
            ELSE IF a = "-x"
                 THEN LET j == NextDash(argv, i + 1)
                      IN CmdlineLoop(argv, j + 1,
                             [out EXCEPT !.exclude = @ \o SubSeq(argv, i + 2, j)], ub)
            ELSE IF ~IsDash(a)
                 THEN LET j == NextDash(argv, i)
                      IN CmdlineLoop(argv, j,
                             [out EXCEPT !.directories = @ \o SubSeq(argv, i + 1, j)], ub)
            ELSE [pc |-> "returned", ret |-> i, out |-> out]

parse_options_cmdline(argv, ub) == CmdlineLoop(argv, 0, NoOptions, ub)

(* main up to the backup: code is the exit code, pc "backup" the way on *)
main_args(ub) ==
    /\ UNCHANGED <<cvars, so, bvars, hv, sv, tv>>
    /\ ov.pc = "argv"
    /\ LET argc == Len(ov.argv)
           r == parse_options_cmdline(ov.argv, ub)
       IN ov' = IF argc >= 2
                THEN IF r.pc # "returned"
                     THEN [ov EXCEPT !.pc = r.pc, !.code = 0, !.opt = r.out]
                     ELSE IF r.ret < 0 \/ r.ret > argc
                     THEN [ov EXCEPT !.pc = "exited", !.parse_res = r.ret,
                                     !.code = 1, !.opt = r.out]
                     ELSE [ov EXCEPT !.pc = "exited", !.parse_res = r.ret,
                                     !.code = 1, !.opt = r.out]
                ELSE [ov EXCEPT !.pc = "backup"]

InitOptions ==
    /\ NoCrypt
    /\ so = NoSort
    /\ NoBackup
    /\ hv = [pc |-> "none"] /\ sv = [pc |-> "none"] /\ tv = [pc |-> "none"]
    /\ \/ \E d \in StringArrays, x \in StringArrays :
             ov = [pc |-> "options", opt |-> [directories |-> d, exclude |-> x],
                   file |-> [DIRECTORIES |-> <<>>, EXCLUDE |-> <<>>],
                   output |-> options_new]
       \/ \E argv \in Argvs :
             ov = [pc |-> "argv", argv |-> argv, parse_res |-> 0, code |-> 0,
                   opt |-> NoOptions]

NextOptions ==
    \/ write_options_tofile
    \/ parse_options_fromfile
    \/ \E ub \in Outcomes : main_args(ub)

SpecOptions == InitOptions /\ [][NextOptions]_vars

(***************************************************************************)
(* SpecTar: one call of tar_extract_file for /checksums on any archive of  *)
(* a few entries, with any one result other than ARCHIVE_OK of a libarchive*)
(* call at one entry.  tv holds the archive, what the call wrote to the    *)
(* output (the entries in order, whole or cut short), the state of the     *)
(* reader tp and of the disk writer ext, and the result.                   *)
(***************************************************************************)
MaxEntries == 3
MaxData == 2

TarNames == {"/checksums", "/removed"}
TarEntries == [name : TarNames, data : 1..MaxData]
Tars == SeqsUpTo(TarEntries, MaxEntries) \ {<<>>}

ExtractResults == {"none", "NULL", "open", "header_failed", "header_fatal",
                   "write_header_failed", "write_header_fatal",
                   "copy_data_failed", "copy_data_fatal"}

(* what a way out leaves: the result, the output, whether it went through  *)
(* the cleanup label                                                       *)
Exit(ret, written, cleanup) == [ret |-> ret, written |-> written, cleanup |-> cleanup]

(* the loop over the headers from entry i on; f at entry at *)
RECURSIVE ExtractLoop(_, _, _, _, _, _)
ExtractLoop(tar, i, file_intar, f, at, written) ==
    IF i > Len(tar) THEN Exit(ARCHIVE_EOF, written, FALSE)
    ELSE IF f = "header_fatal" /\ at = i THEN Exit(-1, written, TRUE)
    ELSE IF f = "header_failed" /\ at = i
         THEN ExtractLoop(tar, i + 1, file_intar, f, at, written)
    ELSE IF tar[i].name # file_intar
         THEN ExtractLoop(tar, i + 1, file_intar, f, at, written)
    ELSE IF f = "write_header_fatal" /\ at = i THEN Exit(-1, written, TRUE)
    ELSE IF f = "write_header_failed" /\ at = i
         THEN ExtractLoop(tar, i + 1, file_intar, f, at, written)
    ELSE IF f = "copy_data_fatal" /\ at = i
         THEN Exit(-1, written \o <<[entry |-> i, whole |-> FALSE]>>, TRUE)
    ELSE IF f = "copy_data_failed" /\ at = i
         THEN ExtractLoop(tar, i + 1, file_intar, f, at,
                          written \o <<[entry |-> i, whole |-> FALSE]>>)
    ELSE Exit(0, written \o <<[entry |-> i, whole |-> TRUE]>>, TRUE)

tar_extract_file_exits(f, at) ==
    /\ UNCHANGED <<cvars, so, bvars, hv, sv, ov>>
    /\ tv.pc = "ready"
    /\ LET x == IF f = "open" THEN Exit(-1, <<>>, TRUE)
                ELSE ExtractLoop(tv.tar, 1, tv.file_intar, f, at, <<>>)
           h == IF x.cleanup THEN "freed" ELSE "open"
       IN tv' = IF f = "NULL"
                THEN [tv EXCEPT !.pc = "returned", !.f = f, !.ret = -1]
                ELSE [tv EXCEPT !.pc = "returned", !.f = f, !.ret = x.ret,
                                !.written = x.written, !.tp = h, !.ext = h]

InitTar ==
    /\ NoCrypt
    /\ so = NoSort
    /\ NoBackup
    /\ hv = [pc |-> "none"] /\ sv = [pc |-> "none"] /\ ov = [pc |-> "none"]
    /\ \E tar \in Tars :
           tv = [pc |-> "ready", tar |-> tar, file_intar |-> "/checksums",
                 f |-> "none", ret |-> 0, written |-> <<>>,
                 tp |-> "none", ext |-> "none"]

NextTar == \E f \in ExtractResults, at \in 1..MaxEntries : tar_extract_file_exits(f, at)

SpecTar == InitTar /\ [][NextTar]_vars

(***************************************************************************)
(* The whole ciphertext of a payload under a key, as one message.          *)
(***************************************************************************)
Ciphertext(p, key, c) ==
    IF c = "block"
    THEN LET n == BlockSize - (Len(p) % BlockSize)
         IN EncBytes(p \o [i \in 1..n |-> n], key)
    ELSE EncBytes(p, key)

(***************************************************************************)
(* C1: crypt_encrypt_ex on a handle whose flag_keys_set is 0, and          *)
(* crypt_decrypt_ex on a handle whose flag_keys_set or flag_salt_extracted *)
(* is 0, return a failure and make no cipher operation.                    *)
(***************************************************************************)
C1_KeyStateChecked ==
    /\ (last.op = "crypt_encrypt_ex" /\ fk.flag_keys_set = 0)
           => (last.ret # 0 /\ last.ops = 0)
    /\ (last.op = "crypt_decrypt_ex"
           /\ (fk.flag_keys_set = 0 \/ fk.flag_salt_extracted = 0))
           => (last.ret # 0 /\ last.ops = 0)

C1_Witness ==
    /\ last.op = "crypt_decrypt_ex"
    /\ last.arg = "art"
    /\ fs.art # NoFile
    /\ fk.flag_keys_set = 1
    /\ fk.flag_salt_extracted = 0
    /\ last.step = "salt"

(***************************************************************************)
(* C2: a crypt_gen_keys that returns 0 was called on a handle in state     *)
(* CIPHER_SET+SALT: cipher set, then a salt generated or extracted, and    *)
(* no keys derived before.                                                 *)
(***************************************************************************)
C2_GenKeysOnlyWithSalt ==
    (last.op = "crypt_gen_keys" /\ last.ret = 0)
        => stage \in {"enc_ready", "dec_ready"}

(***************************************************************************)
(* C3: an artifact made in the documented order by an encryption that      *)
(* went through every step, decrypted in the documented order with the     *)
(* same cipher and no failing library call: the same password gives back   *)
(* the payload; another password either fails at the final block and       *)
(* leaves no output, or returns 0, and always returns 0 for a cipher       *)
(* without padding.                                                        *)
(***************************************************************************)
C3_Case ==
    /\ last.op = "crypt_decrypt_ex"
    /\ last.arg = "art"
    /\ stage = "dec_ready"
    /\ made.art.pw # 0
    /\ made.art.cipher = fk.encryption
    /\ last.step \in {"none", "EVP_DecryptFinal_ex"}

C5_HeaderVerified ==
    (last.op = "crypt_decrypt_ex" /\ fs[last.arg] # NoFile
        /\ Head_n(fs[last.arg], 8) # salt_prefix)
        => last.ret # 0

(***************************************************************************)
(* C6: a crypt_encrypt_ex in which a step failed returns non-zero and      *)
(* leaves no file at the output path.                                      *)
(***************************************************************************)
C6_FailureLeavesNothing ==
    (last.op = "crypt_encrypt_ex" /\ last.step # "none")
        => (last.ret # 0 /\ fs.art = NoFile)

(***************************************************************************)
(* C7: a file given to the per-file step is in the new archive under       *)
(* /files exactly when it was classified Changed or New (and its tar       *)
(* entry could be written); a file classified Unchanged is not added.      *)
(***************************************************************************)
InTar(p) == \E i \in 1..Len(run.tp) : run.tp[i].dir = "/files" /\ run.tp[i].path = p

C7_AddedIffChangedOrNew ==
    \A p \in Paths :
        run.class[p] \notin {"none", "Excluded"} =>
            /\ InTar(p) => run.class[p] \in {"Changed", "New"}
            /\ (run.class[p] \in {"Changed", "New"} /\ p \notin run.tarerr) => InTar(p)
            /\ run.class[p] = "Unchanged" => ~InTar(p)

(***************************************************************************)
(* C8: when the second run is given the archive of the first as its prior, *)
(* no file was changed between them and no step failed, the second         *)
(* archive has no /files member and its /checksums is that of the first.   *)
(***************************************************************************)
FilesIn(tar) == {tar[i].path : i \in {j \in 1..Len(tar) : tar[j].dir = "/files"}}
IndexOf(tar) == tar_extract_file(tar, "/checksums").out

C8_SecondRunAddsNothing ==
    (/\ Len(hist.runs) = 2
     /\ hist.runs[1].made
     /\ hist.runs[2].made
     /\ hist.runs[2].named = 1
     /\ hist.runs[2].same
     /\ hist.faults = 0)
        => /\ FilesIn(archives[2].tar) = {}
           /\ IndexOf(archives[2].tar) = IndexOf(archives[1].tar)

(***************************************************************************)
(* C9: the list that becomes /removed is the paths of the prior index      *)
(* that the current index does not have, in sorted order, and is empty     *)
(* when the run was given no prior.                                        *)
(***************************************************************************)
RECURSIVE SortedPaths(_)
SortedPaths(S) ==
    IF S = {} THEN <<>>
    ELSE LET m == CHOOSE x \in S : \A y \in S : x <= y
         IN <<element(m, 0)>> \o SortedPaths(S \ {m})

C9_RemovedIsPriorMinusCurrent ==
    (run.pc \in {"close", "final", "config"} /\ hist.faults = 0) =>
        LET prior == IF run.named > 0 THEN IndexOf(archives[run.named].tar) ELSE <<>>
        IN /\ run.removed = SortedPaths(PathsOf(prior) \ PathsOf(run.hashes))
           /\ tar_extract_file(run.tp, "/removed").out = run.removed

(***************************************************************************)
(* C10: in the output of sort_checksum_file the paths never decrease, and  *)
(* they increase strictly from each record to the next when no path is     *)
(* twice in the log.                                                       *)
(***************************************************************************)
UniquePaths(log) == \A i, j \in 1..Len(log) : log[i].path = log[j].path => i = j

Count(s, x) == Cardinality({i \in 1..Len(s) : s[i] = x})

RECURSIVE Concat(_)
Concat(runs) == IF runs = <<>> THEN <<>> ELSE Head(runs) \o Concat(Tail(runs))

C11_Permutation ==
    /\ so.pc \in {"runs", "sorted"} =>
           /\ \A e \in Elements : Count(Concat(so.runs), e) = Count(so.log, e)
           /\ \A i \in 1..Len(so.runs) : Len(so.runs[i]) \in 1..so.n
    /\ so.pc = "sorted" =>
           /\ Len(so.out) = Len(so.log)
           /\ \A e \in Elements : Count(so.out, e) = Count(so.log, e)

C11_Witness ==
    /\ so.pc = "sorted"
    /\ Len(so.log) = MaxLog
    /\ Len(so.runs) > 1
    /\ so.out # so.log
    /\ \E e \in Elements : Count(so.log, e) = 2 /\ Count(so.out, e) = 2

(***************************************************************************)
(* C12: in the current index of a run (the append log, and the /checksums  *)
(* made of it) no path is twice, for every list of roots.                  *)
(***************************************************************************)
C12_NoPathTwice ==
    /\ UniquePaths(run.hashes)
    /\ UniquePaths(IndexOf(run.tp))

(***************************************************************************)
(* C13: a file that the per-file step digested, indexed or archived is     *)
(* not in a directory of the exclusion list nor below one, and not below   *)
(* a directory whose last component is lost+found.                         *)
(***************************************************************************)
Processed(p) == run.class[p] \notin {"none", "Excluded"}

C13_ExcludedNeverProcessed ==
    \A p \in Paths :
        Processed(p) =>
            \A d \in {DirOf(p)} \cup Ancestors(DirOf(p)) :
                d \notin cfg.exclude /\ d \notin cfg.lostfound

(***************************************************************************)
(* C14: the operations of a run on its archive come in this order: the     *)
(* /files members, then /checksums, then /removed, then the close of the   *)
(* archive, then the encryption or rename to the final path, then the      *)
(* write of the options.  The members of the tar are the members added,    *)
(* in the order they were added.                                           *)
(***************************************************************************)
Rank(tag) ==
    CASE tag = "/files" -> 1
      [] tag = "/checksums" -> 2
      [] tag = "/removed" -> 3
      [] tag = "tar_close" -> 4
      [] tag = "final" -> 5
      [] tag = "config" -> 6

IsMember(tag) == Rank(tag) <= 3

C14_ArchiveOrder ==
    LET t == run.trace
        n == Len(t)
    IN /\ \A i, j \in 1..n : (i < j /\ IsMember(t[j])) => Rank(t[i]) <= Rank(t[j])
       /\ \A j \in 1..n :
              t[j] = "final" =>
                  /\ \E i \in 1..(j - 1) : t[i] = "tar_close"
                  /\ \A i \in 1..(j - 1) : Rank(t[i]) <= 4
       /\ \A j \in 1..n :
              t[j] = "config" =>
                  /\ \E i \in 1..(j - 1) : t[i] = "final"
                  /\ \A i \in 1..(j - 1) : Rank(t[i]) <= 5
       /\ \A tag \in {"/checksums", "/removed", "final", "config"} : Count(t, tag) <= 1
       /\ [i \in 1..Len(run.tp) |-> run.tp[i].dir] = SelectSeq(t, IsMember)
       /\ run.made => Count(t, "final") = 1
       /\ run.saved # 0 => Count(t, "config") = 1

C14_Witness ==
    /\ run.pc = "idle"
    /\ run.made
    /\ cfg.enc_algorithm
    /\ Count(run.trace, "/files") = 2
    /\ Count(run.trace, "/checksums") = 1
    /\ Count(run.trace, "/removed") = 1
    /\ Count(run.trace, "config") = 1
    /\ Len(archives[Len(archives)].tar) = 4

(***************************************************************************)
(* C15: a run whose final step (encryption, rename or copy to the final    *)
(* path) failed returned a non-zero result and left no file at the final   *)
(* path.                                                                   *)
(***************************************************************************)
C15_FinalFailureFatal ==
    \A i \in 1..Len(hist.runs) :
        "final" \in hist.runs[i].failed =>
            /\ hist.runs[i].ret # 0
            /\ hist.runs[i].final = "none"

(***************************************************************************)
(* C16: a run in which the close of the archive failed returned a          *)
(* non-zero result, did not go on to the final step and did not write the  *)
(* options.                                                                *)
(***************************************************************************)
C16_CloseFailureAborts ==
    /\ "tar_close" \in run.failed =>
           /\ Count(run.trace, "final") = 0
           /\ Count(run.trace, "config") = 0
           /\ ~run.made
    /\ \A i \in 1..Len(hist.runs) :
           "tar_close" \in hist.runs[i].failed => hist.runs[i].ret # 0

(***************************************************************************)
(* C17: a run that was given a prior archive and could not load its index  *)
(* returned a non-zero result, made no final archive and walked no file.   *)
(***************************************************************************)
C17_PriorFailureAborts ==
    /\ "prior" \in run.failed => (run.pc = "idle" /\ ~run.made /\ run.trace = <<>>)
    /\ \A i \in 1..Len(hist.runs) :
           "prior" \in hist.runs[i].failed =>
               (hist.runs[i].ret # 0 /\ ~hist.runs[i].made)

(***************************************************************************)
(* C18: after a run that made the final archive, the options written to    *)
(* the config file name that archive as prev_backup.                       *)
(***************************************************************************)
C18_PrevBackupIsFinal ==
    (run.pc = "idle" /\ run.made) => run.saved = Len(archives)

(***************************************************************************)
(* C19: a call of extract_prev_checksums that created its temp file        *)
(* decrypted the prior archive into that temp file, extracted /checksums   *)
(* from it, and shredded it before returning, whatever it returned.        *)
(***************************************************************************)
C19_DecryptToTempAndShred ==
    run.ep.temp =>
        /\ run.ep.decrypt_to # "out"
        /\ run.ep.extract_from = run.ep.decrypt_to
        /\ run.ep.shredded

(***************************************************************************)
(* C20: when a run has returned, every temp file it made is closed and     *)
(* is no longer on disk.                                                   *)
(***************************************************************************)
C20_TempsReleased ==
    \A i \in 1..Len(hist.runs) :
        \A t \in Temps :
            hist.runs[i].temps[t].made =>
                (~hist.runs[i].temps[t].open /\ ~hist.runs[i].temps[t].file)

(***************************************************************************)
(* C28: backup() releases nothing twice: it closes the tar at most once    *)
(* and closes each of its temp files at most once.                         *)
(***************************************************************************)
C28_NoDoubleRelease ==
    cfg.prog = "backup.c" =>
        /\ Count(run.trace, "tar_close") <= 1
        /\ \A t \in Temps : run.temps[t].releases <= 1

(***************************************************************************)
(* C30: every path that has a /files member in the tar of the run has a    *)
(* record in the append log of the run, also when add_checksum_to_file     *)
(* returned an error for it.                                               *)
(***************************************************************************)
C30_ArchivedImpliesIndexed ==
    \A p \in Paths : InTar(p) => p \in PathsOf(run.hashes)

(* the place of the first x in the sequence s, 0 when it has none *)
IndexIn(s, x) ==
    IF \E i \in 1..Len(s) : s[i] = x
    THEN CHOOSE i \in 1..Len(s) : s[i] = x /\ \A j \in 1..(i - 1) : s[j] # x
    ELSE 0

BackupHelpers == {"encrypt_file", "extract_prev_checksums"}

(***************************************************************************)
(* C21: on every way out of encrypt_file and extract_prev_checksums of     *)
(* backup.c the handle that crypt_new made is released by crypt_free       *)
(* exactly once, and crypt_free is never applied to it twice.              *)
(***************************************************************************)
C21_HandleFreedOnce ==
    hv.pc \in {"returned", "crashed"} /\ hv.fn \in BackupHelpers =>
        /\ Count(hv.trace, "crypt_free") <= 1
        /\ hv.pc = "returned" /\ hv.fault \notin {"NULL", "crypt_new"} =>
               Count(hv.trace, "crypt_free") = 1

(***************************************************************************)
(* C22: a helper that has called crypt_getpassword scrubs the password     *)
(* buffer before it returns, and on the way without a failure it scrubs    *)
(* right after crypt_gen_keys, before the file is read or written.         *)
(***************************************************************************)
C22_PasswordScrubbed ==
    hv.pc = "returned" /\ IndexIn(hv.trace, "crypt_getpassword") > 0 =>
        /\ IndexIn(hv.trace, "crypt_scrub") > IndexIn(hv.trace, "crypt_getpassword")
        /\ hv.fault = "none" =>
               /\ IndexIn(hv.trace, "crypt_scrub")
                      = IndexIn(hv.trace, "crypt_gen_keys") + 1
               /\ \A io \in {"temp_fopen", "crypt_encrypt_ex", "crypt_decrypt_ex"} :
                      IndexIn(hv.trace, io) = 0
                      \/ IndexIn(hv.trace, io) > IndexIn(hv.trace, "crypt_scrub")

(***************************************************************************)
(* C23: when a helper of backup.c returns, on any way out, RLIMIT_CORE is  *)
(* what it was before the call.                                            *)
(***************************************************************************)
C23_CoreLimitRestored ==
    hv.pc = "returned" /\ hv.fn \in BackupHelpers => hv.rlimit = hv.before

(***************************************************************************)
(* C24: in encrypt_file, when the CSPRNG fails and /dev/urandom can be     *)
(* read, the salt is made from it and the encryption goes on to the        *)
(* password and the keys; when both fail, no key is derived.               *)
(***************************************************************************)
C24_SaltFallback ==
    /\ hv.pc = "returned"
    /\ hv.fn = "encrypt_file"
    /\ hv.fault \notin {"crypt_new", "crypt_set_encryption"}
    => /\ hv.src = "urandom" => IndexIn(hv.trace, "crypt_getpassword") > 0
       /\ hv.src = "none" => IndexIn(hv.trace, "crypt_gen_keys") = 0

(***************************************************************************)
(* C29: the length handed to crypt_scrub for the password buffer lies      *)
(* between strlen + 5 and strlen + 15 and is never more than the 1024      *)
(* bytes of the buffer, for every password of 0 to 1023 bytes.             *)
(***************************************************************************)
C29_ScrubWithinBuffer ==
    sv.pc = "scrubbed" =>
        /\ sv.len >= sv.strlen + 5
        /\ sv.len <= sv.strlen + 15
        /\ sv.len <= PwBufLen

(***************************************************************************)
(* C25: main exits with 0 exactly when the run had no fatal error; a run   *)
(* whose command line parse_options_cmdline accepted (it returned 0) goes  *)
(* on to the backup and is not ended with a non-zero code.                 *)
(***************************************************************************)
C25_ParsedCmdlineProceeds ==
    ov.pc = "exited" /\ Len(ov.argv) >= 2 /\ ov.parse_res = 0 => ov.code = 0

(***************************************************************************)
(* C26: the options that parse_options_fromfile reads from the file that   *)
(* write_options_tofile wrote compare equal to the written ones under      *)
(* options_cmp: both lists have the same entries in the same order.        *)
(***************************************************************************)
C26_OptionsRoundTrip ==
    ov.pc = "parsed" => options_cmp(ov.opt, ov.output) = 0

(* the entries of the archive of tv whose pathname is the one asked for *)
Matches == {i \in 1..Len(tv.tar) : tv.tar[i].name = tv.file_intar}

(***************************************************************************)
(* C27: tar_extract_file writes the first entry whose pathname is the one  *)
(* asked for and no other; it returns non-zero when no entry matches; and  *)
(* whenever it returns, the reader and the disk writer it opened have been *)
(* closed and freed.                                                       *)
(***************************************************************************)
C27_FirstMatchAndHandlesFreed ==
    tv.pc = "returned" =>
        /\ \A k \in 1..Len(tv.written) :
               tv.written[k].entry \in Matches
               /\ \A j \in Matches : tv.written[k].entry <= j
        /\ Matches = {} => tv.ret # 0
        /\ tv.tp # "open" /\ tv.ext # "open"

=============================================================================
